---- MODULE Spec2Model ----
(***************************************************************************)
(* Model of DeckLinkDiscovery (src/src/sources/decklinkdiscovery.cpp):     *)
(* the object's fields, its three public operations and its destructor,    *)
(* and the vendor/COM environment they call into.  The calls that may      *)
(* raise are the vendor calls the source wraps in try/catch: those of the  *)
(* walk in enumerateDevices() and the Release() in shutdown().             *)
(***************************************************************************)
EXTENDS Integers, Sequences, FiniteSets, TLC

VARIABLES m_deckLinkIterator, m_devices, m_initialized, m_comInitialized,
          m_baseScreenIndex, orphanedIterator, alive, lastCall

vars == <<m_deckLinkIterator, m_devices, m_initialized, m_comInitialized,
          m_baseScreenIndex, orphanedIterator, alive, lastCall>>

----------------------------------------------------------------------------
(* Bounds of the explored environment *)

\* most S_OK results one walk of the iterator sees
MaxNext == 2
\* most regular screens attached
MaxScreens == 2

----------------------------------------------------------------------------
(* Environment: what the vendor SDK and COM can answer *)

\* bmdDeviceSupportsPlayback
bmdDeviceSupportsPlayback == 1

\* GetModelName and GetDisplayName: a name, or NoName when the call fails
\* or yields no string
NoName == "<none>"

\* QueryInterface(IID_IDeckLinkProfileAttributes) fails (or yields no
\* interface, which the source treats alike), or it succeeds and
\* GetInt(BMDDeckLinkVideoIOSupport) fails or yields a value (the variable
\* it writes to starts at 0)
NoAttributes == [qi |-> "E_NOINTERFACE", getInt |-> "n/a", videoIOSupport |-> 0]
NoVideoIOSupport == [qi |-> "S_OK", getInt |-> "E_FAIL", videoIOSupport |-> 0]
VideoIOSupport(v) == [qi |-> "S_OK", getInt |-> "S_OK", videoIOSupport |-> v]

\* what one S_OK result of IDeckLinkIterator::Next puts in *deckLinkInstance:
\* nothing, or one of the attached devices
NullDevice == [isNull |-> TRUE, name |-> NoName, display |-> NoName, attr |-> NoAttributes]
Device(name, display, attr) == [isNull |-> FALSE, name |-> name, display |-> display, attr |-> attr]
Devices == {Device("A", "Out A", VideoIOSupport(1)),
            Device("B", "Out B", VideoIOSupport(2)),
            Device("C", NoName, NoVideoIOSupport),
            Device(NoName, "Out D", NoAttributes),
            Device(NoName, NoName, VideoIOSupport(3)),
            Device("F", "Out F", VideoIOSupport(0))}
NextResults == Devices \cup {NullDevice}

\* the S_OK results of one walk, and how the walk ends: a non-S_OK result
\* of Next, or an exception raised by a vendor call inside the loop
RECURSIVE SeqsUpTo(_, _)
SeqsUpTo(S, n) ==
  IF n = 0 THEN {<<>>}
  ELSE LET shorter == SeqsUpTo(S, n - 1)
       IN  shorter \cup {Append(s, x) : s \in {t \in shorter : Len(t) = n - 1}, x \in S}
Walks == SeqsUpTo(NextResults, MaxNext)
WalkEnds == {"S_FALSE", "E_FAIL", "throw"}

\* CoInitializeEx results; which CoCreateInstance call succeeds, if any;
\* Release returns or raises
CoInitResults == {"S_OK", "RPC_E_CHANGED_MODE", "E_FAIL"}
CreateOutcomes == {"primary", "alt", "fail"}
ReleaseOutcomes == {"ok", "throw"}

----------------------------------------------------------------------------
(* enumerateDevices *)

\* a QString built from a format and its %1 argument (arg 0: no argument)
QStr(text, arg) == [text |-> text, arg |-> arg]

\* the regular screens, side by side from x = 0
ScreenGeometries(n) == [i \in 1..n |-> [x |-> (i - 1) * 1920, width |-> 1920]]

\* rightmost edge of the regular screens
RECURSIVE RightmostEdge(_, _, _)
RightmostEdge(screens, i, virtualX) ==
  IF i > Len(screens) THEN virtualX
  ELSE LET rightEdge == screens[i].x + screens[i].width
       IN  RightmostEdge(screens, i + 1, IF rightEdge > virtualX THEN rightEdge ELSE virtualX)

\* a & b for non-negative integers
RECURSIVE BitAnd(_, _)
BitAnd(a, b) ==
  IF a = 0 \/ b = 0 THEN 0
  ELSE (a % 2) * (b % 2) + 2 * BitAnd(a \div 2, b \div 2)

\* variant: the default (false) survives when the attributes interface is
\* not available
SupportsPlayback_DefaultKept(dev) ==
  IF dev.attr.qi = "S_OK"
  THEN IF dev.attr.getInt = "S_OK"
       THEN BitAnd(dev.attr.videoIOSupport, bmdDeviceSupportsPlayback) # 0
       ELSE TRUE
  ELSE FALSE

\* deviceInfo.supportsPlayback for one device: false by default, then set
\* in every branch of the attribute query
SupportsPlayback(dev) ==
  IF dev.attr.qi = "S_OK"
  THEN IF dev.attr.getInt = "S_OK"
       THEN BitAnd(dev.attr.videoIOSupport, bmdDeviceSupportsPlayback) # 0
       ELSE TRUE
  ELSE TRUE

\* the record built for one non-null device
DeviceInfo(dev, deviceIndex, baseScreenIndex, virtualX) ==
  LET modelName == IF dev.name # NoName THEN QStr(dev.name, 0)
                   ELSE QStr("DeckLink Device %1", deviceIndex + 1)
      displayName == IF dev.display # NoName THEN QStr(dev.display, 0) ELSE modelName
  IN  [modelName |-> modelName,
       displayName |-> displayName,
       deviceIndex |-> baseScreenIndex + deviceIndex,
       supportsPlayback |-> SupportsPlayback(dev),
       geometry |-> [x |-> virtualX + deviceIndex * 100, y |-> 0, w |-> 1920, h |-> 1080]]

\* variant: devices that do not support playback are not appended
RECURSIVE WalkLoop_PlaybackOnly(_, _, _, _, _, _)
WalkLoop_PlaybackOnly(nexts, i, deviceIndex, baseScreenIndex, virtualX, devices) ==
  IF i > Len(nexts) THEN devices
  ELSE IF nexts[i].isNull
       THEN WalkLoop_PlaybackOnly(nexts, i + 1, deviceIndex, baseScreenIndex, virtualX, devices)
       ELSE WalkLoop_PlaybackOnly(nexts, i + 1, deviceIndex + 1, baseScreenIndex, virtualX,
              IF SupportsPlayback(nexts[i])
              THEN Append(devices, DeviceInfo(nexts[i], deviceIndex, baseScreenIndex, virtualX))
              ELSE devices)

\* variant: a null device pointer also advances deviceIndex
RECURSIVE WalkLoop_NullCounts(_, _, _, _, _, _)
WalkLoop_NullCounts(nexts, i, deviceIndex, baseScreenIndex, virtualX, devices) ==
  IF i > Len(nexts) THEN devices
  ELSE IF nexts[i].isNull
       THEN WalkLoop_NullCounts(nexts, i + 1, deviceIndex + 1, baseScreenIndex, virtualX, devices)
       ELSE WalkLoop_NullCounts(nexts, i + 1, deviceIndex + 1, baseScreenIndex, virtualX,
              Append(devices, DeviceInfo(nexts[i], deviceIndex, baseScreenIndex, virtualX)))

\* the while loop over Next(): the list after the S_OK results nexts[i..]
RECURSIVE WalkLoop(_, _, _, _, _, _)
WalkLoop(nexts, i, deviceIndex, baseScreenIndex, virtualX, devices) ==
  IF i > Len(nexts) THEN devices
  ELSE IF nexts[i].isNull
       THEN WalkLoop(nexts, i + 1, deviceIndex, baseScreenIndex, virtualX, devices)
       ELSE WalkLoop(nexts, i + 1, deviceIndex + 1, baseScreenIndex, virtualX,
                     Append(devices, DeviceInfo(nexts[i], deviceIndex, baseScreenIndex, virtualX)))

\* variant: the catch block does not clear the list; the devices appended
\* before the exception stay
WalkResult_KeepPartial(nexts, last, baseScreenIndex, virtualX) ==
  WalkLoop(nexts, 1, 0, baseScreenIndex, virtualX, <<>>)

\* the try/catch around the loop: what m_devices is when it is left
WalkResult(nexts, last, baseScreenIndex, virtualX) ==
  IF last = "throw" THEN <<>>
  ELSE WalkLoop(nexts, 1, 0, baseScreenIndex, virtualX, <<>>)

\* enumerateDevices() with a non-null iterator: the fields it leaves, and
\* whether an exception escapes it; every vendor call is inside its own
\* try block, so none does
EnumerateDevices(in) ==
  LET base == in.screens
      virtualX == RightmostEdge(ScreenGeometries(in.screens), 1, 0)
  IN  [devices |-> WalkResult(in.nexts, in.last, base, virtualX),
       base |-> base, escaped |-> FALSE]

----------------------------------------------------------------------------
(* The object and the vendor side of its iterator pointer *)

\* the fields as one record; orphanedIterator: some iterator was created,
\* never released, and m_deckLinkIterator no longer points to it
Fields == [it |-> m_deckLinkIterator, devices |-> m_devices,
           initialized |-> m_initialized, com |-> m_comInitialized,
           base |-> m_baseScreenIndex, orphaned |-> orphanedIterator]

\* initializeCOM(): m_comInitialized afterwards (it always returns true)
InitializeCOM(comInitialized, result) ==
  IF comInitialized THEN TRUE
  ELSE IF result = "E_FAIL" THEN FALSE
  ELSE TRUE

\* shutdownCOM(): m_comInitialized afterwards
ShutdownCOM(comInitialized) == FALSE

\* CoCreateInstance(..., &m_deckLinkIterator), twice when the first fails:
\* the pointer is overwritten, whatever it held
CoCreateInstance(s, create) ==
  [s EXCEPT !.it = IF create = "fail" THEN "null" ELSE "live",
            !.orphaned = s.orphaned \/ s.it = "live"]

\* if (m_deckLinkIterator) { Release(); m_deckLinkIterator = nullptr; }
\* a Release that raises has not released, and the assignment is skipped
ReleaseIterator(s, rel) ==
  IF s.it = "null" THEN [s |-> s, threw |-> FALSE]
  ELSE IF rel = "throw" THEN [s |-> s, threw |-> TRUE]
  ELSE [s |-> [s EXCEPT !.it = "null"], threw |-> FALSE]

\* the branch of initialize() taken when both CoCreateInstance calls fail
CreateFailed(s) ==
  [s EXCEPT !.com = IF s.com THEN ShutdownCOM(s.com) ELSE s.com,
            !.initialized = FALSE, !.devices = <<>>]

\* the try block of initialize() when enumerateDevices() returns
EnumerationReturned(s, e) ==
  [s EXCEPT !.devices = e.devices, !.base = e.base, !.initialized = TRUE]

\* the catch block of initialize(), entered when an exception escapes
\* enumerateDevices()
EnumerationEscaped(s, e) ==
  LET r == ReleaseIterator([s EXCEPT !.devices = e.devices, !.base = e.base], "ok").s
  IN  [r EXCEPT !.com = IF r.com THEN ShutdownCOM(r.com) ELSE r.com,
                !.initialized = FALSE, !.devices = <<>>]

\* variant: the result of the second CoCreateInstance is not tested, so a
\* failed creation goes on to enumerateDevices(), which returns at once on
\* the null iterator
InitializeOp_NoFailureCheck(s, in) ==
  IF s.initialized
  THEN [s |-> s, ret |-> "true", ran |-> FALSE]
  ELSE LET c == CoCreateInstance([s EXCEPT !.com = InitializeCOM(s.com, in.coInit)], in.create)
       IN  IF in.create = "fail"
           THEN [s |-> [c EXCEPT !.initialized = TRUE], ret |-> "true", ran |-> TRUE]
           ELSE LET e == EnumerateDevices(in)
                IN  IF ~e.escaped
                    THEN [s |-> EnumerationReturned(c, e), ret |-> "true", ran |-> TRUE]
                    ELSE [s |-> EnumerationEscaped(c, e), ret |-> "false", ran |-> TRUE]

\* initialize(): the fields afterwards, what it returned and whether it got
\* as far as CoCreateInstance
InitializeOp(s, in) ==
  IF s.initialized
  THEN [s |-> s, ret |-> "true", ran |-> FALSE]
  ELSE LET c == CoCreateInstance([s EXCEPT !.com = InitializeCOM(s.com, in.coInit)], in.create)
       IN  IF in.create = "fail"
           THEN [s |-> CreateFailed(c), ret |-> "false", ran |-> TRUE]
           ELSE LET e == EnumerateDevices(in)
                IN  IF ~e.escaped
                    THEN [s |-> EnumerationReturned(c, e), ret |-> "true", ran |-> TRUE]
                    ELSE [s |-> EnumerationEscaped(c, e), ret |-> "false", ran |-> TRUE]

\* shutdown(): the fields afterwards
ShutdownOp(s, rel) ==
  LET r == ReleaseIterator(s, rel).s
  IN  [r EXCEPT !.devices = <<>>, !.initialized = FALSE,
                !.com = IF r.com THEN ShutdownCOM(r.com) ELSE r.com]

\* getAvailableDevices(): initialize() when needed, then a copy of m_devices
GetAvailableDevicesOp(s, in) ==
  LET r == IF ~s.initialized THEN InitializeOp(s, in)
           ELSE [s |-> s, ret |-> "true", ran |-> FALSE]
  IN  [s |-> r.s, ret |-> "list", list |-> r.s.devices, ran |-> r.ran]

----------------------------------------------------------------------------
(* Inputs of one call *)

NoInput == [coInit |-> "S_OK", create |-> "fail", screens |-> 1,
            nexts |-> <<>>, last |-> "S_FALSE"]

\* both CoCreateInstance calls fail
FailInputs == {[NoInput EXCEPT !.coInit = c] : c \in CoInitResults}

\* the iterator is created and walked
WalkInputs == {[NoInput EXCEPT !.coInit = c, !.create = k, !.screens = n,
                               !.nexts = w, !.last = l] :
                 c \in CoInitResults, k \in CreateOutcomes \ {"fail"},
                 n \in 1..MaxScreens, w \in Walks, l \in WalkEnds}

InitInputs == FailInputs \cup WalkInputs

----------------------------------------------------------------------------
(* State machine *)

\* what the last call was, what it met and what it returned
Call(op, ret, list, ran, in) ==
  [op |-> op, ret |-> ret, list |-> list, ran |-> ran, created |-> in.create # "fail",
   screens |-> in.screens, nexts |-> in.nexts, last |-> in.last]

Init ==
  /\ m_deckLinkIterator = "null"
  /\ m_devices = <<>>
  /\ m_initialized = FALSE
  /\ m_comInitialized = FALSE
  /\ m_baseScreenIndex = 0
  /\ orphanedIterator = FALSE
  /\ alive = TRUE
  /\ lastCall = Call("none", "void", <<>>, FALSE, NoInput)

SetFields(s) ==
  /\ m_deckLinkIterator' = s.it
  /\ m_devices' = s.devices
  /\ m_initialized' = s.initialized
  /\ m_comInitialized' = s.com
  /\ m_baseScreenIndex' = s.base
  /\ orphanedIterator' = s.orphaned

\* the inputs a call can meet in the current state
CallInputs == IF m_initialized THEN {NoInput} ELSE InitInputs

ReleaseInputs == IF m_deckLinkIterator = "null" THEN {"ok"} ELSE ReleaseOutcomes

Initialize ==
  /\ alive
  /\ \E in \in CallInputs :
       \E r \in {InitializeOp(Fields, in)} :
           /\ SetFields(r.s)
           /\ lastCall' = Call("initialize", r.ret, <<>>, r.ran, in)
  /\ UNCHANGED alive

GetAvailableDevices ==
  /\ alive
  /\ \E in \in CallInputs :
       \E r \in {GetAvailableDevicesOp(Fields, in)} :
           /\ SetFields(r.s)
           /\ lastCall' = Call("getAvailableDevices", r.ret, r.list, r.ran, in)
  /\ UNCHANGED alive

Shutdown ==
  /\ alive
  /\ \E rel \in ReleaseInputs :
       /\ \E s \in {ShutdownOp(Fields, rel)} : SetFields(s)
       /\ lastCall' = Call("shutdown", "void", <<>>, FALSE, NoInput)
  /\ UNCHANGED alive

Destructor ==
  /\ alive
  /\ \E rel \in ReleaseInputs :
       /\ \E s \in {ShutdownOp(Fields, rel)} : SetFields(s)
       /\ lastCall' = Call("destructor", "void", <<>>, FALSE, NoInput)
  /\ alive' = FALSE

Next == Initialize \/ GetAvailableDevices \/ Shutdown \/ Destructor

Spec == Init /\ [][Next]_vars

\* the values the fields range over
TypeOK ==
  /\ m_deckLinkIterator \in {"null", "live"}
  /\ m_initialized \in BOOLEAN
  /\ m_comInitialized \in BOOLEAN
  /\ m_baseScreenIndex \in 0..MaxScreens
  /\ orphanedIterator \in BOOLEAN
  /\ Len(m_devices) <= MaxNext

----------------------------------------------------------------------------
(* Properties *)

\* the non-null devices of a walk, in the order Next() yielded them
Yielded(nexts) == SelectSeq(nexts, LAMBDA d : ~d.isNull)

\* the last call ran initialize() as far as CoCreateInstance
RanInitialize == lastCall.op \in {"initialize", "getAvailableDevices"} /\ lastCall.ran

\* ... the iterator was created and the walk ended with a non-S_OK Next()
WalkCompleted == RanInitialize /\ lastCall.created /\ lastCall.last # "throw"

\* ... the iterator was created and a vendor call raised during the walk
WalkRaised == RanInitialize /\ lastCall.created /\ lastCall.last = "throw"

\* a record names the device it was built from
Describes(rec, dev) ==
  /\ IF dev.name # NoName THEN rec.modelName = QStr(dev.name, 0)
     ELSE rec.modelName.text = "DeckLink Device %1"
  /\ IF dev.display # NoName THEN rec.displayName = QStr(dev.display, 0)
     ELSE rec.displayName = rec.modelName

\* C1: when both CoCreateInstance calls fail, initialize() returns false,
\* isInitialized() is false afterwards and getAvailableDevices() returns an
\* empty list, wherever in a sequence of calls this happens.
C1_CreateFailureGivesEmpty ==
  (RanInitialize /\ ~lastCall.created) =>
     /\ ~m_initialized
     /\ m_devices = <<>>
     /\ lastCall.op = "initialize" => lastCall.ret = "false"
     /\ lastCall.op = "getAvailableDevices" => (lastCall.ret = "list" /\ lastCall.list = <<>>)

\* C1 witness: getAvailableDevices() met the failure after an earlier
\* enumeration had succeeded and the object had been shut down
C1_Witness ==
  /\ lastCall.op = "getAvailableDevices" /\ lastCall.ran /\ ~lastCall.created
  /\ m_baseScreenIndex > 0

\* C2: after a successful initialize() without error the list holds one
\* record per non-null device yielded before the first non-S_OK Next(), in
\* iteration order, whatever the devices' supportsPlayback.
C2_OneRecordPerDevice ==
  (WalkCompleted /\ lastCall.ret \in {"true", "list"}) =>
     /\ m_initialized
     /\ Len(m_devices) = Len(Yielded(lastCall.nexts))
     /\ \A k \in 1..Len(m_devices) : Describes(m_devices[k], Yielded(lastCall.nexts)[k])

\* C2 witness: two devices were listed and the first does not support playback
C2_Witness ==
  /\ WalkCompleted /\ lastCall.op = "initialize" /\ lastCall.ret = "true"
  /\ Len(m_devices) = 2
  /\ ~m_devices[1].supportsPlayback
  /\ m_devices[1].modelName # m_devices[2].modelName

\* C4: an error while walking the iterator leaves the device list empty,
\* however many devices were appended before it; getAvailableDevices()
\* returns no partial list.
C4_ErrorClearsList ==
  WalkRaised =>
     /\ m_devices = <<>>
     /\ lastCall.op = "getAvailableDevices" => lastCall.list = <<>>

\* C4 witness: the error came after two devices had been appended
C4_Witness ==
  /\ WalkRaised /\ lastCall.op = "getAvailableDevices"
  /\ Len(Yielded(lastCall.nexts)) = 2

\* C5: a record's supportsPlayback is false exactly when the attributes
\* interface was obtained, the video I/O support read succeeded and bit 0
\* of the value is clear; in every other case it is true.
C5_SupportsPlayback ==
  WalkCompleted =>
     \A k \in 1..Len(m_devices) :
        k <= Len(Yielded(lastCall.nexts)) =>
           LET attr == Yielded(lastCall.nexts)[k].attr
           IN  m_devices[k].supportsPlayback =
                 ~(attr.qi = "S_OK" /\ attr.getInt = "S_OK" /\ attr.videoIOSupport % 2 = 0)

\* C5 witness: one listed device has bit 0 clear, the other has no
\* attributes interface
C5_Witness ==
  /\ WalkCompleted /\ Len(m_devices) = 2
  /\ \E j, k \in 1..2 :
        /\ ~m_devices[j].supportsPlayback
        /\ Yielded(lastCall.nexts)[k].attr.qi # "S_OK" /\ m_devices[k].supportsPlayback

\* C6: after a successful enumeration the k-th record (from 0) has
\* deviceIndex = number of regular screens + k; a null device pointer
\* consumes no index.
C6_ContiguousIndexes ==
  WalkCompleted =>
     \A k \in 1..Len(m_devices) : m_devices[k].deviceIndex = lastCall.screens + (k - 1)

\* C6 witness: with two screens, a null device pointer came before a device
C6_Witness ==
  /\ WalkCompleted /\ lastCall.screens = 2
  /\ Len(lastCall.nexts) = 2 /\ lastCall.nexts[1].isNull
  /\ Len(m_devices) = 1 /\ m_devices[1].deviceIndex = 2

\* C3 as claimed: an error during enumeration makes initialize() release the
\* iterator, undo its COM initialization, leave the object uninitialized
\* with an empty list and return false.
C3_EnumerationErrorFailsInitialize ==
  (lastCall.op = "initialize" /\ WalkRaised) =>
     /\ m_deckLinkIterator = "null"
     /\ ~m_comInitialized
     /\ ~m_initialized
     /\ m_devices = <<>>
     /\ lastCall.ret = "false"

\* C7 as claimed: between public operations at most one iterator is created
\* and not released, one is held exactly when isInitialized() is true, and
\* none is held after shutdown().
C7_OneIteratorIffInitialized ==
  /\ ~orphanedIterator
  /\ m_initialized <=> (m_deckLinkIterator = "live")
  /\ lastCall.op \in {"shutdown", "destructor"} => m_deckLinkIterator = "null"

====
